---- MODULE Spec2Model ----
(***************************************************************************)
(* Model of src/Vote.py: a Single Transferable Vote tally.  Vote holds a   *)
(* preference list and a weight, Participant holds the list of votes       *)
(* assigned to it, and Context runs election_loop: the initial assignment  *)
(* followed by election_phase until complete().                            *)
(*                                                                         *)
(* Candidate names are the numbers 1..C (name i is the i-th element of the  *)
(* list get_participants builds).  Vote objects are identified by their index  *)
(* in the list get_votes builds.  Weights are Python floats in the source; *)
(* here they are exact rationals <<n, d>> in lowest terms with d > 0, so   *)
(* sums and comparisons are the exact values the floats approximate.       *)
(***************************************************************************)
EXTENDS Integers, Sequences, FiniteSets, TLC

VARIABLES participants, winners, eliminated, seats, quota, phase,
          votes, prefs, weight, pvotes, pc, last

vars == <<participants, winners, eliminated, seats, quota, phase,
          votes, prefs, weight, pvotes, pc, last>>

\* Bounds of the checked instances.
MaxCands == 4
MaxMarks == 4
MaxBlankLines == 1

\* Python's None, returned by find_participant and first_choice.
None == -1

-----------------------------------------------------------------------------
\* Exact rational arithmetic standing for the float arithmetic of the source.

Abs(x) == IF x < 0 THEN -x ELSE x

RECURSIVE GCD(_, _)
GCD(a, b) == IF b = 0 THEN a ELSE GCD(b, a % b)

Norm(n, d) ==
    LET s == IF d < 0 THEN -1 ELSE 1
        g == GCD(Abs(n), Abs(d))
    IN  <<(s * n) \div g, (s * d) \div g>>

Rat(i) == <<i, 1>>
RAdd(x, y) == Norm(x[1] * y[2] + y[1] * x[2], x[2] * y[2])
RSub(x, y) == Norm(x[1] * y[2] - y[1] * x[2], x[2] * y[2])
RMul(x, y) == Norm(x[1] * y[1], x[2] * y[2])
RDiv(x, y) == Norm(x[1] * y[2], x[2] * y[1])
RLeq(x, y) == x[1] * y[2] <= y[1] * x[2]
RLt(x, y) == x[1] * y[2] < y[1] * x[2]

\* math.ceil of the rational n/d (d # 0, either sign).
Ceil(n, d) ==
    LET r == Norm(n, d)
    IN  IF r[1] % r[2] = 0 THEN r[1] \div r[2] ELSE (r[1] \div r[2]) + 1

-----------------------------------------------------------------------------
\* Vote

first_choice(p) == IF Len(p) = 0 THEN None ELSE p[1]

is_white(p) == Len(p) = 0

\* Participant

RECURSIVE count_votes(_, _)
count_votes(vs, w) ==
    IF vs = <<>> THEN Rat(0)
    ELSE RAdd(w[Head(vs)], count_votes(Tail(vs), w))

\* Context

destroy_white_votes(vs, pr) == SelectSeq(vs, LAMBDA b : ~is_white(pr[b]))

\* Quota without the added 1.0.
Quota_no_increment(v, s) == Ceil(v, s + 1)

\* quota = ceil(1.0 + len(votes) / (seats + 1.0)); the caller excludes
\* seats + 1 = 0, where the float division raises ZeroDivisionError.
Quota(v, s) == Ceil(s + 1 + v, s + 1)

complete(w, s) == Len(w) = s

find_participant(ps, name) ==
    IF \E i \in 1..Len(ps) : ps[i] = name THEN name ELSE None

\* The list left in the order it had (the sort omitted).
InsertDesc_unsorted(s, x, key) == Append(s, x)

\* list.sort(key=lambda p: p.count_votes(), reverse=True): a stable sort,
\* so candidates with equal counts keep their previous relative order.
RECURSIVE InsertDesc(_, _, _)
InsertDesc(s, x, key) ==
    IF s = <<>> THEN <<x>>
    ELSE IF RLt(key[Head(s)], key[x]) THEN <<x>> \o s
    ELSE <<Head(s)>> \o InsertDesc(Tail(s), x, key)

RECURSIVE sort_participants(_, _)
sort_participants(ps, key) ==
    IF ps = <<>> THEN <<>>
    ELSE InsertDesc(sort_participants(SubSeq(ps, 1, Len(ps) - 1), key),
                    ps[Len(ps)], key)

\* The winner left in the active list.
pop_first_kept(ps) == ps

\* self.participants.pop(0) of the winner case.
pop_first(ps) == Tail(ps)

\* The surplus divided by the quota instead of the winner's count.
surplus_coef_over_quota(n, q) == RDiv(RSub(n, Rat(q)), Rat(q))

\* The subtraction with its operands exchanged.
surplus_coef_swapped(n, q) == RDiv(RSub(Rat(q), n), n)

\* wcoef = (no_of_votes - self.quota) / no_of_votes
surplus_coef(n, q) == RDiv(RSub(n, Rat(q)), n)

\* Votes of an eliminated candidate moved at half their value.
elimination_coef_halved == <<1, 2>>

\* wcoef = 1.0 of the elimination case.
elimination_coef == Rat(1)

\* The automatic fill tested on the active list alone, and with >= for ==.
\* The fill test never holding (lines 200-202 left out).
auto_fill_never(w, ps, s) == FALSE

auto_fill_active_only(w, ps, s) == Len(ps) = s

auto_fill_at_least(w, ps, s) == Len(w) + Len(ps) >= s

\* len(self.winners) + len(self.participants) == self.seats
auto_fill(w, ps, s) == Len(w) + Len(ps) = s

\* migrate without the final source.clear().
Participant_clear_skipped(vs) == vs

\* Participant.clear
Participant_clear(vs) == <<>>

\* The while loop of migrate after the first update: preferences naming
\* nobody in the active list are removed from the front (update() with the
\* default wcoef 1.0 leaves the weight as it is).
RECURSIVE advance(_, _)
advance(p, ps) ==
    IF is_white(p) THEN p
    ELSE IF find_participant(ps, first_choice(p)) # None THEN p
    ELSE advance(Tail(p), ps)

\* The for loop of migrate from the i-th vote of the source on.  st is
\* [pvotes, prefs, weight, err]; err records the IndexError of
\* self.prefs.pop(0) on an empty list, raised after the weight was scaled.
RECURSIVE migrate_from(_, _, _, _, _, _)
migrate_from(ps, st, source, src, i, wcoef) ==
    IF i > Len(src)
    THEN [st EXCEPT !.pvotes[source] = Participant_clear(@)]
    ELSE LET b == src[i] IN
         IF is_white(st.prefs[b])
         THEN [st EXCEPT !.weight[b] = RMul(@, wcoef), !.err = TRUE]
         ELSE LET p1 == advance(Tail(st.prefs[b]), ps)
                  pv1 == IF is_white(p1) THEN st.pvotes
                         ELSE [st.pvotes EXCEPT
                                 ![first_choice(p1)] = Append(@, b)]
                  st1 == [st EXCEPT !.prefs[b] = p1,
                                    !.weight[b] = RMul(@, wcoef),
                                    !.pvotes = pv1]
              IN  migrate_from(ps, st1, source, src, i + 1, wcoef)

migrate(ps, st, source, wcoef) ==
    migrate_from(ps, st, source, st.pvotes[source], 1, wcoef)

\* The initial assignment of election_loop from the i-th vote on.  A vote
\* whose first choice matches nobody makes find_participant return None
\* and p.add_vote raise AttributeError; the votes before it stay assigned.
RECURSIVE assign_from(_, _, _, _, _)
assign_from(ps, pv, vs, pr, i) ==
    IF i > Len(vs) THEN [pvotes |-> pv, err |-> FALSE]
    ELSE LET p == find_participant(ps, first_choice(pr[vs[i]])) IN
         IF p = None THEN [pvotes |-> pv, err |-> TRUE]
         ELSE assign_from(ps, [pv EXCEPT ![p] = Append(@, vs[i])],
                          vs, pr, i + 1)

-----------------------------------------------------------------------------
\* Inputs.  A ballot is a line of the votes file: a list of names, a blank
\* line being a white vote.  A name repeated on a line is skipped by migrate
\* when it is reached again (its candidate has left the active list by
\* then), so lines without repetition are enumerated.  The file holds at
\* most MaxMarks names in all and at most MaxBlankLines blank lines.
PrefLists(names) ==
    UNION {{p \in [1..n -> names] : \A i, j \in 1..n : p[i] = p[j] => i = j} :
           n \in 0..(IF MaxMarks < Cardinality(names) THEN MaxMarks
                     ELSE Cardinality(names))}

\* The order of the lines only fixes the order in which votes are appended
\* to a candidate's list, so one order per multiset of lines is enumerated:
\* the one ascending in PrefCode.
RECURSIVE PrefCode(_)
PrefCode(p) ==
    IF p = <<>> THEN 0 ELSE (Head(p) + 2) + (MaxCands + 4) * PrefCode(Tail(p))

\* list(set(pnames.split())): the distinct names, in the order the set yields
\* them.  Name i is the i-th element of that list.
get_participants(c) == [i \in 1..c |-> i]

\* What the latest election_phase call saw and did: its locals (source,
\* wcoef), the lists and votes as they were after its sort (active0, winners0,
\* eliminated0, pvotes0, prefs0, weight0), the active list right after the
\* winner or loser was removed (removed) and the candidates the automatic
\* fill promoted (filled).
NoRound ==
    [kind |-> "none", source |-> None, before |-> Rat(0), wcoef |-> Rat(1),
     moved |-> Rat(0), dropped |-> Rat(0), fill |-> FALSE,
     active0 |-> <<>>, winners0 |-> <<>>, eliminated0 |-> <<>>,
     pvotes0 |-> <<>>, prefs0 |-> <<>>, weight0 |-> <<>>,
     removed |-> <<>>, filled |-> <<>>]

\* Context.__init__
Context(order, s, bl) ==
    /\ participants = order
    /\ seats = s
    /\ prefs = bl
    /\ weight = [b \in 1..Len(bl) |-> Rat(1)]
    /\ winners = <<>>
    /\ eliminated = <<>>
    /\ phase = 0
    /\ votes = destroy_white_votes([b \in 1..Len(bl) |-> b], bl)
    /\ quota = IF s + 1 = 0 THEN 0 ELSE Quota(Len(votes), s)
    /\ pc = IF s + 1 = 0 THEN "crashed" ELSE "init"
    /\ pvotes = [c \in 1..Len(order) |-> <<>>]
    /\ last = NoRound

\* get_votes reading further lines (each not before the previous one in the
\* order of PrefCode, with marks names and blanks blank lines still allowed),
\* and then the constructor run with some number of seats in ss.
RECURSIVE Load(_, _, _, _, _, _)
Load(c, lines, ss, bl, marks, blanks) ==
    \/ \E s \in ss : Context(get_participants(c), s, bl)
    \/ \E p \in lines :
         /\ Len(p) <= marks
         /\ is_white(p) => blanks > 0
         /\ (IF bl = <<>> THEN 0 ELSE PrefCode(bl[Len(bl)])) <= PrefCode(p)
         /\ Load(c, lines, ss, Append(bl, p), marks - Len(p),
                 IF is_white(p) THEN blanks - 1 ELSE blanks)

\* Valid configurations: 1 <= seats <= candidate count, known names only.
Init ==
    \E c \in 1..MaxCands :
      \E lines \in {PrefLists(1..c)} :
        Load(c, lines, 1..c, <<>>, MaxMarks, MaxBlankLines)

-----------------------------------------------------------------------------
\* election_loop, lines 161-164: the initial assignment.
election_loop_assign ==
    /\ pc = "init"
    /\ LET r == assign_from(participants, pvotes, votes, prefs, 1) IN
         /\ pvotes' = r.pvotes
         /\ pc' = IF r.err THEN "crashed" ELSE "loop"
    /\ UNCHANGED <<participants, winners, eliminated, seats, quota, phase,
                   votes, prefs, weight, last>>

\* election_loop, line 166: the loop ends when complete() holds.
election_loop_exit ==
    /\ pc = "loop"
    /\ complete(winners, seats)
    /\ pc' = "done"
    /\ UNCHANGED <<participants, winners, eliminated, seats, quota, phase,
                   votes, prefs, weight, pvotes, last>>

RECURSIVE weight_where(_, _, _, _)
weight_where(vs, pr, w, white) ==
    IF vs = <<>> THEN Rat(0)
    ELSE LET rest == weight_where(Tail(vs), pr, w, white) IN
         IF is_white(pr[Head(vs)]) = white THEN RAdd(w[Head(vs)], rest)
         ELSE rest

\* One pass of the while loop: one call of election_phase, migrate included.
\* The ipdb.set_trace() of line 167 changes no state and is left out.
election_phase ==
    /\ pc = "loop"
    /\ ~complete(winners, seats)
    /\ phase' = phase + 1
    /\ \E key \in {[c \in DOMAIN pvotes |-> count_votes(pvotes[c], weight)]} :
       \E sorted \in {sort_participants(participants, key)} :
       IF sorted = <<>>
       THEN \* self.participants [0] raises IndexError
            /\ participants' = sorted
            /\ pc' = "crashed"
            /\ last' = [NoRound EXCEPT !.kind = "empty"]
            /\ UNCHANGED <<winners, eliminated, pvotes, prefs, weight>>
       ELSE
         LET first == sorted[1]
             iswin == RLeq(Rat(quota), key[first])
             source == IF iswin THEN first ELSE sorted[Len(sorted)]
             ps1 == IF iswin THEN pop_first(sorted)
                    ELSE SubSeq(sorted, 1, Len(sorted) - 1)
             w1 == IF iswin THEN Append(winners, first) ELSE winners
             fill == ~iswin /\ auto_fill(w1, ps1, seats)
             zerodiv == iswin /\ key[first] = Rat(0)
             wcoef == IF iswin /\ ~zerodiv THEN surplus_coef(key[first], quota)
                      ELSE IF iswin THEN Rat(1)
                      ELSE elimination_coef
             ps2 == IF fill THEN <<>> ELSE ps1
             st == [pvotes |-> pvotes, prefs |-> prefs, weight |-> weight,
                    err |-> FALSE]
             src == pvotes[source]
         IN
         \E r \in {IF zerodiv THEN st ELSE migrate(ps2, st, source, wcoef)} :
         /\ participants' = ps2
         /\ winners' = IF fill THEN w1 \o ps1 ELSE w1
         /\ eliminated' = IF iswin THEN eliminated
                          ELSE Append(eliminated, source)
         /\ pvotes' = r.pvotes
         /\ prefs' = r.prefs
         /\ weight' = r.weight
         /\ pc' = IF zerodiv \/ r.err THEN "crashed" ELSE "loop"
         /\ last' = [kind |-> IF zerodiv THEN "zerodiv"
                              ELSE IF r.err THEN "poperr"
                              ELSE IF iswin THEN "winner" ELSE "eliminated",
                     source |-> source,
                     before |-> key[source],
                     wcoef |-> wcoef,
                     moved |-> weight_where(src, r.prefs, r.weight, FALSE),
                     dropped |-> weight_where(src, r.prefs, r.weight, TRUE),
                     fill |-> fill,
                     active0 |-> sorted,
                     winners0 |-> winners,
                     eliminated0 |-> eliminated,
                     pvotes0 |-> pvotes,
                     prefs0 |-> prefs,
                     weight0 |-> weight,
                     removed |-> ps1,
                     filled |-> IF fill THEN ps1 ELSE <<>>]
    /\ UNCHANGED <<seats, quota, votes>>

\* Configurations the spec calls invalid: seats < 1 or seats above the
\* candidate count.  With seats = -1 the constructor itself fails.
InitInvalid ==
    \E c \in 1..MaxCands :
      \E lines \in {PrefLists(1..c)} :
        Load(c, lines, {-2, -1, 0, c + 1}, <<>>, MaxMarks, MaxBlankLines)

\* A name that is on no line of the participants file.
Unknown == 0

\* Valid seats, and votes files whose lines may also hold the unknown name.
InitUnknown ==
    \E c \in 1..MaxCands :
      \E lines \in {PrefLists({Unknown} \cup 1..c)} :
        Load(c, lines, 1..c, <<>>, MaxMarks, MaxBlankLines)

Next == election_loop_assign \/ election_phase \/ election_loop_exit

Spec == Init /\ [][Next]_vars

SpecInvalid == InitInvalid /\ [][Next]_vars

SpecUnknown == InitUnknown /\ [][Next]_vars

-----------------------------------------------------------------------------
\* Vocabulary of the properties.

Cands == DOMAIN pvotes
NumCands == Cardinality(Cands)
SeqSet(q) == {q[i] : i \in 1..Len(q)}
NoRepeat(q) == \A i, j \in 1..Len(q) : q[i] = q[j] => i = j
Ballots == DOMAIN prefs
Holders(b) == {<<c, i>> \in Cands \X (1..Cardinality(Ballots)) :
                 i <= Len(pvotes[c]) /\ pvotes[c][i] = b}
VoteCount(c) == count_votes(pvotes[c], weight)
AtQuota == {c \in SeqSet(participants) : RLeq(Rat(quota), VoteCount(c))}
RoundStart == pc = "loop" /\ ~complete(winners, seats)

RECURSIVE ActiveTotal(_)
ActiveTotal(q) ==
    IF q = <<>> THEN Rat(0) ELSE RAdd(VoteCount(Head(q)), ActiveTotal(Tail(q)))

\* C1: the election loop ends with complete() true: it never fails, and it
\* never starts a round with an empty active list while winners < seats.
C1_ElectionCompletes ==
    /\ pc # "crashed"
    /\ RoundStart => participants # <<>>

\* C2: the quota fixed at construction is floor(V / (S + 1)) + 1, V being
\* the number of non-blank ballots.
C2_DroopQuota == quota = (Len(votes) \div (seats + 1)) + 1

\* C3 as stated: when the election has completed, the round counter is at
\* most C - S + 1.
C3_RoundBound == pc = "done" => phase <= NumCands - seats + 1

\* C3 amended: the round counter never exceeds C - 1 when S < C, and never
\* exceeds C + 1 when S = C.
C3_RoundBoundAmended ==
    phase <= (IF seats < NumCands THEN NumCands - 1 ELSE NumCands + 1)

C3_Witness ==
    /\ pc = "done"
    /\ seats < NumCands
    /\ phase = NumCands - 1
    /\ phase > NumCands - seats + 1

\* C4: with seats < 1 or seats above the candidate count no round runs and
\* no candidate is moved to winners or eliminated.
C4_InvalidRejected == phase = 0 /\ winners = <<>> /\ eliminated = <<>>

\* C5: the active list, winners and eliminated hold no candidate twice, are
\* pairwise disjoint and together are the original candidate set.
C5_Partition ==
    /\ NoRepeat(participants \o winners \o eliminated)
    /\ SeqSet(participants \o winners \o eliminated) = Cands

C5_Witness ==
    /\ pc = "loop"
    /\ participants # <<>>
    /\ winners # <<>>
    /\ eliminated # <<>>

\* C6: the number of winners never exceeds seats.
C6_WinnersWithinSeats == Len(winners) <= seats

C6_Witness == last.fill /\ Len(winners) = seats /\ Len(winners) >= 2

\* C7: no ballot is in the vote lists of two candidates or twice in one.
C7_SingleOwner == \A b \in Ballots : Cardinality(Holders(b)) <= 1

C7_Witness ==
    /\ pc = "loop"
    /\ RLt(Rat(0), last.moved)
    /\ \E b \in Ballots : Cardinality(Holders(b)) = 1 /\ weight[b] # Rat(1)

\* C8: an exhausted ballot (empty preference list), blank at load time or
\* exhausted by a transfer, is in no candidate's vote list.
C8_ExhaustedUnowned ==
    \A b \in Ballots : is_white(prefs[b]) => Holders(b) = {}

C8_Witness ==
    /\ last.kind \in {"winner", "eliminated"}
    /\ \E b \in SeqSet(votes) : is_white(prefs[b])
    /\ \E b \in Ballots : b \notin SeqSet(votes)

\* C9: at the start of a round at most seats active candidates have a vote
\* count >= quota, and the active candidates' counts sum to at most V.
C9_QuotaHolders ==
    RoundStart =>
        /\ Cardinality(AtQuota) <= seats
        /\ RLeq(ActiveTotal(participants), Rat(Len(votes)))

C9_Witness == RoundStart /\ Cardinality(AtQuota) >= 2

\* C10 as stated: after a winner round the weights of the ballots
\* transferred to other candidates sum to the winner's count minus quota.
C10_SurplusTransferred ==
    last.kind = "winner" => last.moved = RSub(last.before, Rat(quota))

\* C10 amended: after a winner round the weights of the winner's ballots,
\* those transferred to other candidates and those dropped as exhausted
\* together, sum to the winner's count before the round minus the quota.
C10_SurplusAccounted ==
    last.kind = "winner" =>
        RAdd(last.moved, last.dropped) = RSub(last.before, Rat(quota))

C10_Witness ==
    /\ last.kind = "winner"
    /\ RLt(Rat(0), last.moved)
    /\ RLt(Rat(0), last.dropped)

RECURSIVE HeldUpTo(_, _, _)
HeldUpTo(n, pv, w) ==
    IF n = 0 THEN Rat(0)
    ELSE RAdd(count_votes(pv[n], w), HeldUpTo(n - 1, pv, w))

\* The total weight in the vote lists pv of all candidates under weights w.
Held(pv, w) == HeldUpTo(NumCands, pv, w)

\* C11: an elimination round changes no ballot's weight, and the total
\* weight held by candidates drops by exactly the full weights of the
\* eliminated candidate's ballots that became exhausted in the round.
C11_EliminationConserves ==
    last.kind = "eliminated" =>
        /\ weight = last.weight0
        /\ Held(pvotes, weight) =
             RSub(Held(last.pvotes0, last.weight0),
                  weight_where(last.pvotes0[last.source], prefs,
                               last.weight0, TRUE))

C11_Witness ==
    /\ last.kind = "eliminated"
    /\ ~last.fill
    /\ RLt(Rat(0), last.moved)
    /\ pvotes # last.pvotes0

\* C12: with no valid ballot the quota is 1 and the election loop still ends
\* with all seats filled: it never fails and never starts a round with an
\* empty active list.
C12_ZeroBallotsComplete ==
    Len(votes) = 0 =>
        /\ quota = 1
        /\ pc # "crashed"
        /\ RoundStart => participants # <<>>

\* C13 as stated: every ballot's weight is strictly positive and at most 1.
C13_WeightPositive ==
    \A b \in Ballots : RLt(Rat(0), weight[b]) /\ RLeq(weight[b], Rat(1))

\* C13 amended: every ballot's weight is at least 0 and at most 1, and
\* after a winner round whose winner held exactly the quota every ballot
\* the winner held has weight 0.
C13_WeightInUnitInterval ==
    /\ \A b \in Ballots : RLeq(Rat(0), weight[b]) /\ RLeq(weight[b], Rat(1))
    /\ (last.kind = "winner" /\ last.before = Rat(quota)) =>
          \A b \in SeqSet(last.pvotes0[last.source]) : weight[b] = Rat(0)

C13_Witness ==
    /\ last.kind = "winner"
    /\ last.before = Rat(quota)
    /\ \E b \in Ballots : Holders(b) # {} /\ weight[b] = Rat(0)

\* C14 as stated: every candidate in winners or in eliminated has an empty
\* vote list.
C14_DecidedEmpty ==
    \A c \in SeqSet(winners) \cup SeqSet(eliminated) : pvotes[c] = <<>>

\* C14 amended: every eliminated candidate and every winner promoted by
\* meeting the quota has an empty vote list; a winner promoted by the
\* automatic fill keeps the vote list it had when the round started.
C14_DecidedEmptyUnlessFilled ==
    \A c \in SeqSet(winners) \cup SeqSet(eliminated) :
        pvotes[c] = (IF c \in SeqSet(last.filled) THEN last.pvotes0[c]
                     ELSE <<>>)

C14_Witness ==
    /\ last.fill
    /\ Len(winners) > Len(last.filled)
    /\ \E c \in SeqSet(last.filled) : pvotes[c] # <<>>

\* C15: in an elimination round every ballot of the eliminated candidate
\* keeps its weight and goes to the candidate named by its first remaining
\* preference that was active right after the removal; it is dropped only
\* if it has no such preference.
C15_EliminationTransfers ==
    last.kind = "eliminated" =>
        \A b \in SeqSet(last.pvotes0[last.source]) :
            LET rest == advance(Tail(last.prefs0[b]), last.removed) IN
            /\ weight[b] = last.weight0[b]
            /\ IF is_white(rest) THEN Holders(b) = {}
               ELSE \E i \in 1..Len(pvotes[rest[1]]) : pvotes[rest[1]][i] = b

\* The vote count a candidate had when the latest round started.
Count0(c) == count_votes(last.pvotes0[c], last.weight0)

\* C16: a round that started with an active candidate at or above the quota
\* moves an active candidate of maximal count to winners and eliminates
\* nobody; any other round moves an active candidate of minimal count to
\* eliminated.
C16_RoundCases ==
    last.kind \in {"winner", "eliminated"} =>
        LET A0 == SeqSet(last.active0) IN
        /\ last.source \in A0
        /\ last.source \notin SeqSet(participants)
        /\ IF \E c \in A0 : RLeq(Rat(quota), Count0(c))
           THEN /\ last.kind = "winner"
                /\ \A c \in A0 : RLeq(Count0(c), Count0(last.source))
                /\ winners = Append(last.winners0, last.source)
                /\ eliminated = last.eliminated0
           ELSE /\ last.kind = "eliminated"
                /\ \A c \in A0 : RLeq(Count0(last.source), Count0(c))
                /\ eliminated = Append(last.eliminated0, last.source)
                /\ last.source \notin SeqSet(winners)

C16_Witness ==
    /\ last.kind = "winner"
    /\ last.active0[1] # 1
    /\ \E c \in SeqSet(last.active0) :
          RLt(Rat(0), Count0(c)) /\ RLt(Count0(c), Count0(last.source))

\* C17: an elimination after which |winners| + |active| = seats ends with the
\* remaining active candidates appended to the earlier winners in their
\* vote-count-descending order, no active candidate left and the election
\* complete; any other round adds to winners only a candidate whose count had
\* reached the quota.
C17_AutomaticFill ==
    last.kind \in {"winner", "eliminated"} =>
        IF last.kind = "eliminated"
           /\ Len(last.winners0) + Len(last.removed) = seats
        THEN /\ last.removed = SubSeq(last.active0, 1, Len(last.active0) - 1)
             /\ winners = last.winners0 \o last.removed
             /\ \A i, j \in 1..Len(last.removed) :
                   i < j => RLeq(Count0(last.removed[j]), Count0(last.removed[i]))
             /\ participants = <<>>
             /\ complete(winners, seats)
        ELSE /\ participants = last.removed
             /\ \E n \in {Len(last.winners0)} :
                   /\ SubSeq(winners, 1, n) = last.winners0
                   /\ \A i \in (n + 1)..Len(winners) :
                         RLeq(Rat(quota), Count0(winners[i]))

C17_Witness ==
    /\ last.fill
    /\ last.winners0 # <<>>
    /\ \E i, j \in 1..Len(last.filled) :
          RLt(Count0(last.filled[j]), Count0(last.filled[i]))
    /\ SubSeq(winners, Len(last.winners0) + 1, Len(winners)) = last.filled

\* C18: once the initial assignment is over, it has not failed, and a ballot
\* whose first preference names no candidate is held by nobody or by the
\* candidate of its first preference that names one.
C18_UnknownFirstHandled ==
    (pc # "init" /\ phase = 0 /\ last.kind = "none") =>
        /\ pc # "crashed"
        /\ \A b \in SeqSet(votes) :
              first_choice(prefs[b]) \notin Cands =>
                  \A h \in Holders(b) :
                      h[1] = first_choice(advance(prefs[b], participants))

\* C19: between rounds every ballot on a candidate's list has that candidate
\* as its first preference (so it is not exhausted), and no round has popped
\* the front of an empty preference list.
C19_HeldByFirstChoice ==
    /\ last.kind # "poperr"
    /\ pc \in {"loop", "done"} =>
          \A c \in Cands : \A i \in 1..Len(pvotes[c]) :
              /\ ~is_white(prefs[pvotes[c][i]])
              /\ first_choice(prefs[pvotes[c][i]]) = c

C19_Witness ==
    /\ pc = "loop"
    /\ last.kind \in {"winner", "eliminated"}
    /\ \E b \in SeqSet(last.pvotes0[last.source]) :
          /\ Holders(b) # {}
          /\ Len(prefs[b]) + 2 <= Len(last.prefs0[b])

\* C20: with more candidates than seats, winners and active candidates
\* together never number fewer than seats, no round starts with an empty
\* active list, nothing fails, every round started is at most round C - 1,
\* and the loop is left with exactly seats winners.
C20_EnoughCandidates ==
    seats < NumCands =>
        /\ Len(winners) + Len(participants) >= seats
        /\ pc # "crashed"
        /\ RoundStart => (participants # <<>> /\ phase < NumCands - 1)
        /\ phase <= NumCands - 1
        /\ pc = "done" => Len(winners) = seats

C20_Witness ==
    /\ seats < NumCands
    /\ pc = "done"
    /\ last.fill
    /\ last.winners0 # <<>>
    /\ Len(winners) + Len(participants) = seats
    /\ phase = NumCands - 1

====
